---- MODULE Spec2Model ----
(***************************************************************************)
(* scanflash: the verification engine (check.cpp: Check::write and         *)
(* Check::read driven by main) and the partition table codec (device.cpp:  *)
(* store32le, lba2chs, writeEntry, Device::writePartitionTable).           *)
(*                                                                         *)
(* block_t is unsigned 64 bit.  TLC's integers are 32 bit, so a block_t    *)
(* value v is represented by the integer r with r = v (mod 2^64) and       *)
(* -2^31 < r < 2^31: a negative r stands for the value 2^64 + r that an    *)
(* unsigned subtraction wrapped to.  ULt compares two such values the way  *)
(* the unsigned comparison of the program does.                            *)
(***************************************************************************)
EXTENDS Integers, Sequences, FiniteSets, TLC

VARIABLES
    \* the device (POSIXDevice and the medium behind it)
    devSize,        \* size() in bytes
    wrapK,          \* physical blocks behind the advertised ones (= numBlocks when genuine)
    faulty,         \* the device may fail operations and return wrong data
    disk,           \* physical block -> the 64 bit word the block is filled with
    mbr,            \* the 512 byte image written at offset 0, NoMbr before
    pos,            \* file position, in bytes
    isOpen,         \* the handle is open
    \* Check
    numBlocks, pc, startBlock, remainingBlocks, b,
    firstBad, firstBadBlock, lastBadBlock, fail,
    \* history of the run
    initK,          \* blocks [0, initK) held their pattern before the run
    resumed,        \* resumeWrite() was asked and answered yes
    syncFailed,     \* sync() raised an error
    rewritten,      \* block writes made after sync() failed
    ptArgs,         \* the arguments of the writePartitionTable call, << >> before
    badSet,         \* the blocks the read pass recorded as bad
    \* the calls the run made
    callCount,      \* how often each callback and device operation was called
    block0Match,    \* the memcmp of line 68 found block 0 equal to its pattern
    writeStartArg,  \* the arguments of the writeStart() call, << >> before
    wlog,           \* the block writes of the write loop, in the order made
    round,          \* the last round of the recovery loop: answer and reopen()
    rp,             \* the readProgress() call the last step made, if any
    lastOp,         \* the last read, write, sync, close or reopen and its result
    \* direct calls of the pure functions
    fn, out,
    \* ConsoleUI during the read pass
    duration,       \* whole seconds since readStart() (tmNow.tv_sec - tmStart.tv_sec)
    firstReadError, \* the duration at which the failure timer was started, 0 when not
    runStart        \* the duration of the first of the current run of failed reads, -1 if none

devVars == << devSize, wrapK, faulty, disk, mbr, pos, isOpen >>
chkVars == << numBlocks, pc, startBlock, remainingBlocks, b,
              firstBad, firstBadBlock, lastBadBlock, fail >>
histVars == << initK, resumed, syncFailed, rewritten, ptArgs, badSet >>
logVars == << callCount, block0Match, writeStartArg, wlog, round, rp, lastOp >>
fnVars == << fn, out >>
uiVars == << duration, firstReadError, runStart >>
vars == << devVars, chkVars, histVars, logVars, fnVars, uiVars >>

(***************************************************************************)
(* Program constants.                                                      *)
(***************************************************************************)
DATA_BLOCK_SIZE == 4096
MBR_LEN == 512
MBR_SECTOR_SIZE == 512
CHS_NUMSECTORS == 63
CHS_NUMHEADS == 16
MBR_MIN_PART_SIZE == (16 * 1048576) \div MBR_SECTOR_SIZE
MBR_PTYPE_GOOD == 12
MBR_PTYPE_BAD == 255
MAX_READ_ERROR_TIME == 15
BLOCK_T_SIZE == 8

(***************************************************************************)
(* Bounds of the model.                                                    *)
(***************************************************************************)
MaxMult == 3
MaxDelta == 1
MaxSerial == 1
MaxLba == 130
MaxBlockNum == 9
MaxWords == 2
MaxBlocks == 6
\* faults (failed or garbled operations) are injected on devices up to this size
MaxFaultyBlocks == 5
MaxUiBlocks == 4
MaxSearchBlocks == 70
MaxProbeBits == 6
MaxSeconds == 33
\* the read pass alone is run on devices of 257 up to this many blocks
MaxLongBlocks == 258

(***************************************************************************)
(* Machine arithmetic.                                                     *)
(***************************************************************************)
RECURSIVE BitAnd(_, _)
BitAnd(x, y) ==
    IF x = 0 \/ y = 0 THEN 0
    ELSE ((x % 2) * (y % 2)) + 2 * BitAnd(x \div 2, y \div 2)

RECURSIVE BitOr(_, _)
BitOr(x, y) ==
    IF x = 0 THEN y
    ELSE IF y = 0 THEN x
    ELSE (IF (x % 2) + (y % 2) > 0 THEN 1 ELSE 0) + 2 * BitOr(x \div 2, y \div 2)

RECURSIVE Shr(_, _)
Shr(v, k) == IF k = 0 THEN v ELSE Shr(v \div 2, k - 1)

U8(v) == v % 256

\* a < b for two block_t values (unsigned 64 bit comparison)
ULt(x, y) ==
    IF (x >= 0) = (y >= 0) THEN x < y ELSE y < 0

(***************************************************************************)
(* check.cpp: prepareBuf.  The buffer is the function 0..len-1 -> byte;    *)
(* memcpy of the incremented block_t copies its in-memory bytes, least     *)
(* significant first on the little-endian hosts the program is built for.  *)
(***************************************************************************)
\* the same value written to every block
Pattern_Constant(blockNum) == 1

\* prepareBuf without the increment of line 33
Pattern_NoIncrement(blockNum) == blockNum

Pattern(blockNum) == blockNum + 1

\* byte j (0 = least significant) of the in-memory block_t value v
ByteOf(v, j) ==
    IF j < 4
    THEN U8(v \div (2 ^ (8 * j)))
    ELSE U8(((v \div 16777216) \div 256) \div (2 ^ (8 * (j - 4))))

prepareBuf(len, blockNum) ==
    [i \in 0..(len - 1) |-> ByteOf(Pattern(blockNum), i % BLOCK_T_SIZE)]

\* memcmp(a, b, len) == 0: the bytes are compared in order, up to the first
\* difference
memcmpEq(buf1, buf2) == \A i \in DOMAIN buf1 : buf1[i] = buf2[i]

(***************************************************************************)
(* device.cpp: store32le, lba2chs, writeEntry.  A buffer is a function     *)
(* from byte offsets to bytes.                                             *)
(***************************************************************************)
store32le(dest, off, val) ==
    [dest EXCEPT ![off]     = BitAnd(val, 255),
                 ![off + 1] = BitAnd(Shr(val, 8), 255),
                 ![off + 2] = BitAnd(Shr(val, 16), 255),
                 ![off + 3] = BitAnd(Shr(val, 24), 255)]

\* lba2chs with a zero-based sector number
lba2chs_ZeroBasedSector(lba) ==
    LET cyls    == lba \div (CHS_NUMSECTORS * CHS_NUMHEADS)
        heads   == (lba \div CHS_NUMSECTORS) % CHS_NUMHEADS
        sectors == lba % CHS_NUMSECTORS
    IN  << U8(heads),
           U8(BitOr(Shr(BitAnd(cyls, 768), 2), sectors)),
           U8(BitAnd(cyls, 255)) >>

lba2chs(lba) ==
    LET cyls    == lba \div (CHS_NUMSECTORS * CHS_NUMHEADS)
        heads   == (lba \div CHS_NUMSECTORS) % CHS_NUMHEADS
        sectors == (lba % CHS_NUMSECTORS) + 1
    IN  << U8(heads),
           U8(BitOr(Shr(BitAnd(cyls, 768), 2), sectors)),
           U8(BitAnd(cyls, 255)) >>

putChs(buf, off, chs) ==
    [buf EXCEPT ![off] = chs[1], ![off + 1] = chs[2], ![off + 2] = chs[3]]

writeEntry(img, index, start, end, type) ==
    LET part == 446 + index * 16
        m1   == putChs(img, part + 1, lba2chs(start))
        m2   == putChs(m1, part + 5, lba2chs(end))
        m3   == [m2 EXCEPT ![part + 4] = type]
        m4   == store32le(m3, part + 8, start)
    IN  store32le(m4, part + 12, end - start + 1)

(***************************************************************************)
(* device.cpp: Device::writePartitionTable.  PartitionCalls is the list of *)
(* writeEntry calls the three conditions make, in order; the call at       *)
(* position i of the list has index i-1 (partNum++).  The image is the     *)
(* zeroed sector with the serial, the entries and the boot signature.      *)
(***************************************************************************)
PartitionCalls(firstBadByte, lastBadByte, size) ==
    LET start == firstBadByte \div MBR_SECTOR_SIZE
        end   == (lastBadByte + 1) \div MBR_SECTOR_SIZE
        num   == size \div MBR_SECTOR_SIZE
        c1    == IF start > MBR_MIN_PART_SIZE
                 THEN << [start |-> 0, end |-> start, type |-> MBR_PTYPE_GOOD] >>
                 ELSE << >>
        c2    == IF (start # 0) /\ (end # 0)
                 THEN << [start |-> start, end |-> end, type |-> MBR_PTYPE_BAD] >>
                 ELSE << >>
        c3    == IF ULt(end, num - MBR_MIN_PART_SIZE)
                 THEN << [start |-> end, end |-> num, type |-> MBR_PTYPE_GOOD] >>
                 ELSE << >>
    IN  c1 \o c2 \o c3

RECURSIVE writeEntries(_, _, _)
writeEntries(img, calls, partNum) ==
    IF calls = << >> THEN img
    ELSE writeEntries(
            writeEntry(img, partNum, Head(calls).start, Head(calls).end,
                       Head(calls).type),
            Tail(calls), partNum + 1)

writePartitionTable(firstBadByte, lastBadByte, size, serial) ==
    LET zero == [i \in 0..(MBR_LEN - 1) |-> 0]
        m1   == store32le(zero, 440, serial)
        m2   == writeEntries(m1, PartitionCalls(firstBadByte, lastBadByte, size), 0)
    IN  [m2 EXCEPT ![510] = 85, ![511] = 170]

(***************************************************************************)
(* The device.  A block filled by prepareBuf is represented by the word it *)
(* is filled with (Pattern of its index); 0 is the word of a block nothing *)
(* was written to.  An access at byte position p acts on the physical      *)
(* block (p / DATA_BLOCK_SIZE) mod wrapK.  A read of a faulty device       *)
(* returns the stored data, other data, or raises an error; after an error *)
(* the file position is where it was or past the block (POSIX leaves it    *)
(* unspecified).                                                           *)
(***************************************************************************)
NoMbr == << >>
NoBlock == 0

Phys(p) == (p \div DATA_BLOCK_SIZE) % wrapK

\* a read that does not see the partition table written at offset 0
Stored_WithoutTable(p) ==
    [word |-> disk[Phys(p)], head |-> NoMbr]

\* the content the medium holds for the block at position p
Stored(p) ==
    [word |-> disk[Phys(p)],
     head |-> IF Phys(p) = 0 THEN mbr ELSE NoMbr]

Garbage == [word |-> NoBlock, head |-> NoMbr]

ReadOutcomes == IF faulty THEN {"ok", "garbage", "error"} ELSE {"ok"}
OpOutcomes == IF faulty THEN {"ok", "error"} ELSE {"ok"}

ReadData(outcome, p) == IF outcome = "ok" THEN Stored(p) ELSE Garbage

\* memcmp(origBuf, buf, DATA_BLOCK_SIZE) == 0 with origBuf = prepareBuf(blockNum)
Matches(data, blockNum) ==
    /\ data.word = Pattern(blockNum)
    /\ \/ data.head = NoMbr
       \/ memcmpEq(data.head, prepareBuf(MBR_LEN, blockNum))

(***************************************************************************)
(* Check::Check and the state main() starts Check::write() in.             *)
(***************************************************************************)
TailBytes == {0, MBR_SECTOR_SIZE}

FnIdle ==
    /\ fn = [op |-> "none", a |-> 0, b |-> 0, c |-> 0, d |-> 0]
    /\ out = [done |-> FALSE, bytes |-> << >>, calls |-> << >>, more |-> << >>]

\* no callback and no device operation called yet
NoCalls ==
    [resumeWrite |-> 0, probe |-> 0, writeStart |-> 0, write |-> 0,
     writeFinish |-> 0, sync |-> 0, close |-> 0, readStart |-> 0, read |-> 0,
     readFinish |-> 0, checkComplete |-> 0, writePartitionTable |-> 0]

Called(log, name) == [log EXCEPT ![name] = @ + 1]

NoRound == [asked |-> FALSE, yes |-> FALSE, reopen |-> FALSE, ok |-> FALSE]

NoProgress ==
    [called |-> FALSE, blk |-> 0, fail |-> FALSE, ioError |-> FALSE,
     final |-> FALSE, answer |-> TRUE]

DevOp(op, blk, ok) == [op |-> op, blk |-> blk, ok |-> ok]

NoOp == DevOp("none", 0, TRUE)

LogInit ==
    /\ callCount = NoCalls /\ block0Match = FALSE /\ writeStartArg = << >>
    /\ wlog = << >> /\ round = NoRound /\ rp = NoProgress /\ lastOp = NoOp

\* ConsoleUI as constructed: no pass started
UiIdle == duration = 0 /\ firstReadError = 0 /\ runStart = -1

\* Check::Check, lines 45-52: dev->size() is lseek64(fd, 0, SEEK_END) in
\* POSIXDevice, which leaves the file position at the end of the device
Constructed(size) ==
    /\ devSize = size
    /\ numBlocks = size \div DATA_BLOCK_SIZE
    /\ startBlock = 0 /\ remainingBlocks = 0 /\ b = 0
    /\ firstBad = FALSE /\ firstBadBlock = 0 /\ lastBadBlock = 0
    /\ fail = FALSE
    /\ pos = size /\ isOpen = TRUE /\ mbr = NoMbr
    /\ resumed = FALSE /\ syncFailed = FALSE /\ rewritten = 0
    /\ ptArgs = << >> /\ badSet = {}
    /\ LogInit
    /\ UiIdle

\* main() about to call Check::write()
CheckInit(size) == Constructed(size) /\ pc = "w_check"

DiskInit ==
    disk = [q \in 0..(wrapK - 1) |-> IF q < initK THEN Pattern(q) ELSE NoBlock]

Init ==
    /\ \E n \in 1..MaxBlocks, t \in TailBytes : CheckInit(n * DATA_BLOCK_SIZE + t)
    /\ faulty \in (IF numBlocks <= MaxFaultyBlocks THEN BOOLEAN ELSE {FALSE})
    /\ wrapK \in 1..numBlocks
    /\ initK \in 0..wrapK
    /\ DiskInit
    /\ FnIdle

(***************************************************************************)
(* Check::write.                                                           *)
(***************************************************************************)
\* resumeWrite() consulted whatever block 0 holds
WriteResumeCheck_AlwaysAsk ==
    /\ pc = "w_check"
    /\ \E o \in ReadOutcomes :
        /\ IF o = "error"
           THEN /\ pc' = "crashed"
                /\ pos' \in {0, DATA_BLOCK_SIZE}
           ELSE /\ pos' = DATA_BLOCK_SIZE
                /\ pc' = "w_ask"
        /\ block0Match' = (o # "error" /\ Matches(ReadData(o, 0), 0))
        /\ lastOp' = DevOp("read", 0, o # "error")
    /\ UNCHANGED << devSize, wrapK, faulty, disk, mbr, isOpen >>
    /\ UNCHANGED << numBlocks, startBlock, remainingBlocks, b,
                    firstBad, firstBadBlock, lastBadBlock, fail >>
    /\ UNCHANGED << callCount, writeStartArg, wlog, round, rp >>
    /\ UNCHANGED << histVars, fnVars, uiVars >>

\* lines 62-68: read block 0 and compare it with the pattern of block 0
WriteResumeCheck ==
    /\ pc = "w_check"
    /\ \E o \in ReadOutcomes :
        /\ IF o = "error"
           THEN /\ pc' = "crashed"
                /\ pos' \in {0, DATA_BLOCK_SIZE}
           ELSE /\ pos' = DATA_BLOCK_SIZE
                /\ pc' = IF Matches(ReadData(o, 0), 0) THEN "w_ask" ELSE "w_start"
        /\ block0Match' = (o # "error" /\ Matches(ReadData(o, 0), 0))
        /\ lastOp' = DevOp("read", 0, o # "error")
    /\ UNCHANGED << devSize, wrapK, faulty, disk, mbr, isOpen >>
    /\ UNCHANGED << numBlocks, startBlock, remainingBlocks, b,
                    firstBad, firstBadBlock, lastBadBlock, fail >>
    /\ UNCHANGED << callCount, writeStartArg, wlog, round, rp >>
    /\ UNCHANGED << histVars, fnVars, uiVars >>

\* lines 70-76: resumeWrite(), and the start of the search when it says yes
WriteAskResume ==
    /\ pc = "w_ask"
    /\ \E yes \in BOOLEAN :
        IF yes
        THEN /\ remainingBlocks' = numBlocks \div 2
             /\ startBlock' = numBlocks \div 2
             /\ resumed' = TRUE
             /\ pc' = "w_probe"
        ELSE /\ UNCHANGED << remainingBlocks, startBlock, resumed >>
             /\ pc' = "w_start"
    /\ callCount' = Called(callCount, "resumeWrite")
    /\ UNCHANGED << devVars, numBlocks, b, firstBad, firstBadBlock,
                    lastBadBlock, fail, initK, syncFailed, rewritten, ptArgs,
                    badSet, fnVars, uiVars >>
    /\ UNCHANGED << block0Match, writeStartArg, wlog, round, rp, lastOp >>

\* lines 77-92: one iteration of the search loop
WriteProbe ==
    /\ pc = "w_probe"
    /\ remainingBlocks > 1
    /\ \E o \in ReadOutcomes :
        /\ IF o = "error"
           THEN /\ pc' = "crashed"
                /\ pos' \in {startBlock * DATA_BLOCK_SIZE,
                             startBlock * DATA_BLOCK_SIZE + DATA_BLOCK_SIZE}
                /\ UNCHANGED << remainingBlocks, startBlock >>
           ELSE /\ pos' = startBlock * DATA_BLOCK_SIZE + DATA_BLOCK_SIZE
                /\ remainingBlocks' = remainingBlocks \div 2
                /\ startBlock' =
                     IF Matches(ReadData(o, startBlock * DATA_BLOCK_SIZE), startBlock)
                     THEN startBlock + (remainingBlocks \div 2)
                     ELSE startBlock - (remainingBlocks \div 2)
                /\ pc' = "w_probe"
        /\ lastOp' = DevOp("read", startBlock, o # "error")
    /\ callCount' = Called(callCount, "probe")
    /\ UNCHANGED << devSize, wrapK, faulty, disk, mbr, isOpen >>
    /\ UNCHANGED << numBlocks, b, firstBad, firstBadBlock, lastBadBlock, fail >>
    /\ UNCHANGED << block0Match, writeStartArg, wlog, round, rp >>
    /\ UNCHANGED << histVars, fnVars, uiVars >>

\* line 93: the search loop ends
WriteProbeEnd ==
    /\ pc = "w_probe"
    /\ ~(remainingBlocks > 1)
    /\ pc' = "w_start"
    /\ UNCHANGED << devVars, numBlocks, startBlock, remainingBlocks, b,
                    firstBad, firstBadBlock, lastBadBlock, fail >>
    /\ UNCHANGED << histVars, logVars, fnVars, uiVars >>

\* the write loop entered without seek(startBlock * DATA_BLOCK_SIZE)
WriteStart_NoSeek ==
    /\ pc = "w_start"
    /\ pos' = pos
    /\ b' = startBlock
    /\ pc' = "w_loop"
    /\ callCount' = Called(callCount, "writeStart")
    /\ writeStartArg' = << startBlock, numBlocks >>
    /\ UNCHANGED << devSize, wrapK, faulty, disk, mbr, isOpen >>
    /\ UNCHANGED << numBlocks, startBlock, remainingBlocks,
                    firstBad, firstBadBlock, lastBadBlock, fail >>
    /\ UNCHANGED << block0Match, wlog, round, rp, lastOp >>
    /\ UNCHANGED << histVars, fnVars, uiVars >>

\* lines 100-102: seek to the start block, writeStart(), loop initialisation
WriteStart ==
    /\ pc = "w_start"
    /\ pos' = startBlock * DATA_BLOCK_SIZE
    /\ b' = startBlock
    /\ pc' = "w_loop"
    /\ callCount' = Called(callCount, "writeStart")
    /\ writeStartArg' = << startBlock, numBlocks >>
    /\ UNCHANGED << devSize, wrapK, faulty, disk, mbr, isOpen >>
    /\ UNCHANGED << numBlocks, startBlock, remainingBlocks,
                    firstBad, firstBadBlock, lastBadBlock, fail >>
    /\ UNCHANGED << block0Match, wlog, round, rp, lastOp >>
    /\ UNCHANGED << histVars, fnVars, uiVars >>

\* ConsoleUI::writeProgress, part_001 lines 610-615: it divides by
\* numBlocks - 1 and, for b > 0, by b - startBlock (the start block that
\* writeStart() was given); a zero divisor is undefined behaviour
WriteProgressFaults(blk) ==
    numBlocks = 1 \/ (blk > 0 /\ blk = writeStartArg[1])

\* ConsoleUI::readProgress, part_001 lines 654-661: it divides by
\* numBlocks - 1 and, for b > 0, by b - startBlock with the start block 0
\* that readStart() was given
ReadProgressFaults == numBlocks = 1

\* lines 102-108: one iteration of the write loop.  writeProgress(b) is called
\* first when b % 256 = 0; with ConsoleUI as the callback it may divide by
\* zero, which ends the program (SIGFPE) or goes unnoticed
WriteBlock ==
    /\ pc = "w_loop"
    /\ ULt(b, numBlocks)
    /\ \/ /\ (b % 256) = 0 /\ WriteProgressFaults(b)
          /\ pc' = "sigfpe"
          /\ UNCHANGED << disk, mbr, pos, b, rewritten, wlog, lastOp, callCount >>
       \/ /\ \E o \in OpOutcomes :
               /\ IF o = "error"
                  THEN /\ pc' = "crashed"
                       /\ UNCHANGED << disk, mbr, pos, b, rewritten, wlog >>
                  ELSE /\ disk' = [disk EXCEPT ![Phys(pos)] = Pattern(b)]
                       /\ mbr' = IF Phys(pos) = 0 THEN NoMbr ELSE mbr
                       /\ pos' = pos + DATA_BLOCK_SIZE
                       /\ b' = b + 1
                       /\ rewritten' = IF syncFailed THEN rewritten + 1 ELSE rewritten
                       /\ wlog' = Append(wlog, [off |-> pos, word |-> Pattern(b)])
                       /\ pc' = "w_loop"
               /\ lastOp' = DevOp("write", b, o # "error")
          /\ callCount' = Called(callCount, "write")
    /\ UNCHANGED << devSize, wrapK, faulty, isOpen >>
    /\ UNCHANGED << numBlocks, startBlock, remainingBlocks,
                    firstBad, firstBadBlock, lastBadBlock, fail >>
    /\ UNCHANGED << block0Match, writeStartArg, round, rp >>
    /\ UNCHANGED << initK, resumed, syncFailed, ptArgs, badSet, fnVars, uiVars >>

\* the write pass returning after writeFinish() without sync()
WriteFinish_NoSync ==
    /\ pc = "w_loop"
    /\ ~ULt(b, numBlocks)
    /\ pc' = "r_start"
    /\ callCount' = Called(callCount, "writeFinish")
    /\ UNCHANGED << devVars, numBlocks, startBlock, remainingBlocks, b,
                    firstBad, firstBadBlock, lastBadBlock, fail >>
    /\ UNCHANGED << block0Match, writeStartArg, wlog, round, rp, lastOp >>
    /\ UNCHANGED << histVars, fnVars, uiVars >>

\* lines 110-111: the loop is over; writeProgress(numBlocks - 1), which may
\* divide by zero in ConsoleUI, then writeFinish()
WriteFinish ==
    /\ pc = "w_loop"
    /\ ~ULt(b, numBlocks)
    /\ \/ /\ WriteProgressFaults(numBlocks - 1)
          /\ pc' = "sigfpe"
          /\ UNCHANGED callCount
       \/ /\ pc' = "w_sync"
          /\ callCount' = Called(callCount, "writeFinish")
    /\ UNCHANGED << devVars, numBlocks, startBlock, remainingBlocks, b,
                    firstBad, firstBadBlock, lastBadBlock, fail >>
    /\ UNCHANGED << block0Match, writeStartArg, wlog, round, rp, lastOp >>
    /\ UNCHANGED << histVars, fnVars, uiVars >>

\* lines 113-122: sync(); when it fails the device is closed and the user asked
WriteSync ==
    /\ pc = "w_sync"
    /\ \E o \in OpOutcomes :
        IF o = "error"
        THEN /\ isOpen' = FALSE
             /\ syncFailed' = TRUE
             /\ callCount' = Called(Called(callCount, "sync"), "close")
             /\ lastOp' = DevOp("close", 0, TRUE)
             /\ pc' = "w_prompt"
        ELSE /\ UNCHANGED << isOpen, syncFailed >>
             /\ callCount' = Called(callCount, "sync")
             /\ lastOp' = DevOp("sync", 0, TRUE)
             /\ pc' = "r_start"
    /\ UNCHANGED << devSize, wrapK, faulty, disk, mbr, pos >>
    /\ UNCHANGED << numBlocks, startBlock, remainingBlocks, b,
                    firstBad, firstBadBlock, lastBadBlock, fail >>
    /\ UNCHANGED << block0Match, writeStartArg, wlog, round, rp >>
    /\ UNCHANGED << initK, resumed, rewritten, ptArgs, badSet, fnVars, uiVars >>

\* the recovery loop starting the write pass over after a successful reopen()
WriteRecover_Rerun ==
    /\ pc = "w_prompt"
    /\ \E yes \in BOOLEAN, o \in {"ok", "error"} :
        IF ~yes
        THEN /\ pc' = "aborted"
             /\ round' = [asked |-> TRUE, yes |-> FALSE, reopen |-> FALSE, ok |-> FALSE]
             /\ UNCHANGED << isOpen, pos, lastOp >>
        ELSE IF o = "error"
        THEN /\ pc' = "w_prompt"
             /\ round' = [asked |-> TRUE, yes |-> TRUE, reopen |-> TRUE, ok |-> FALSE]
             /\ lastOp' = DevOp("reopen", 0, FALSE)
             /\ UNCHANGED << isOpen, pos >>
        ELSE /\ isOpen' = TRUE
             /\ pos' = 0
             /\ round' = [asked |-> TRUE, yes |-> TRUE, reopen |-> TRUE, ok |-> TRUE]
             /\ lastOp' = DevOp("reopen", 0, TRUE)
             /\ pc' = "w_start"
    /\ UNCHANGED << devSize, wrapK, faulty, disk, mbr >>
    /\ UNCHANGED << numBlocks, startBlock, remainingBlocks, b,
                    firstBad, firstBadBlock, lastBadBlock, fail >>
    /\ UNCHANGED << callCount, block0Match, writeStartArg, wlog, rp >>
    /\ UNCHANGED << histVars, fnVars, uiVars >>

\* the recovery loop left after a failed reopen()
WriteRecover_GiveUp ==
    /\ pc = "w_prompt"
    /\ \E yes \in BOOLEAN, o \in {"ok", "error"} :
        IF ~yes
        THEN /\ pc' = "aborted"
             /\ round' = [asked |-> TRUE, yes |-> FALSE, reopen |-> FALSE, ok |-> FALSE]
             /\ UNCHANGED << isOpen, pos, lastOp >>
        ELSE IF o = "error"
        THEN /\ pc' = "r_start"
             /\ round' = [asked |-> TRUE, yes |-> TRUE, reopen |-> TRUE, ok |-> FALSE]
             /\ lastOp' = DevOp("reopen", 0, FALSE)
             /\ UNCHANGED << isOpen, pos >>
        ELSE /\ isOpen' = TRUE
             /\ pos' = 0
             /\ round' = [asked |-> TRUE, yes |-> TRUE, reopen |-> TRUE, ok |-> TRUE]
             /\ lastOp' = DevOp("reopen", 0, TRUE)
             /\ pc' = "r_start"
    /\ UNCHANGED << devSize, wrapK, faulty, disk, mbr >>
    /\ UNCHANGED << numBlocks, startBlock, remainingBlocks, b,
                    firstBad, firstBadBlock, lastBadBlock, fail >>
    /\ UNCHANGED << callCount, block0Match, writeStartArg, wlog, rp >>
    /\ UNCHANGED << histVars, fnVars, uiVars >>

\* lines 123-136: one round of the recovery loop: the answer, then reopen()
WriteRecover ==
    /\ pc = "w_prompt"
    /\ \E yes \in BOOLEAN, o \in {"ok", "error"} :
        IF ~yes
        THEN /\ pc' = "aborted"
             /\ round' = [asked |-> TRUE, yes |-> FALSE, reopen |-> FALSE, ok |-> FALSE]
             /\ UNCHANGED << isOpen, pos, lastOp >>
        ELSE IF o = "error"
        THEN /\ pc' = "w_prompt"
             /\ round' = [asked |-> TRUE, yes |-> TRUE, reopen |-> TRUE, ok |-> FALSE]
             /\ lastOp' = DevOp("reopen", 0, FALSE)
             /\ UNCHANGED << isOpen, pos >>
        ELSE /\ isOpen' = TRUE
             /\ pos' = 0
             /\ round' = [asked |-> TRUE, yes |-> TRUE, reopen |-> TRUE, ok |-> TRUE]
             /\ lastOp' = DevOp("reopen", 0, TRUE)
             /\ pc' = "r_start"
    /\ UNCHANGED << devSize, wrapK, faulty, disk, mbr >>
    /\ UNCHANGED << numBlocks, startBlock, remainingBlocks, b,
                    firstBad, firstBadBlock, lastBadBlock, fail >>
    /\ UNCHANGED << callCount, block0Match, writeStartArg, wlog, rp >>
    /\ UNCHANGED << histVars, fnVars, uiVars >>

(***************************************************************************)
(* Check::read, called by main() after Check::write() returned.            *)
(***************************************************************************)
\* lines 144-154: seek(0), readStart(), loop initialisation
ReadStartStep ==
    /\ pc = "r_start"
    /\ pos' = 0
    /\ firstBad' = FALSE /\ firstBadBlock' = 0 /\ lastBadBlock' = 0
    /\ startBlock' = 0
    /\ fail' = FALSE
    /\ b' = 0
    /\ pc' = "r_loop"
    /\ callCount' = Called(callCount, "readStart")
    /\ UNCHANGED << devSize, wrapK, faulty, disk, mbr, isOpen >>
    /\ UNCHANGED << numBlocks, remainingBlocks >>
    /\ UNCHANGED << block0Match, writeStartArg, wlog, round, rp, lastOp >>
    /\ UNCHANGED << histVars, fnVars >>

\* Check::read starting, with a callback whose readStart() is not looked into
ReadStart == ReadStartStep /\ UNCHANGED uiVars

\* only an I/O error recorded as bad
ReadIsBad_ErrorsOnly(o, blk) == o = "error"

\* the cadence call made for the first block only
ProgressDue_FirstBlockOnly(blk, failed) == blk = 0 \/ failed

\* line 177: if (((b % 256) == 0) || fail)
ProgressDue(blk, failed) == (blk % 256) = 0 \/ failed

\* line 178: if (!readProgress(b, fail)) throw error(...)
Aborts_Never(answer) == FALSE

Aborts(answer) == ~answer

\* lines 159-168 and 170-175: what the read of block blk does to the envelope
ReadIsBad(o, blk) == o = "error" \/ ~Matches(ReadData(o, pos), blk)

\* lines 154-180: one iteration of the read loop reading with outcome o; cont
\* is readProgress()'s answer, and fault says that readProgress() divided by
\* zero and ended the program (no answer is returned then)
ReadBlockStep(o, cont, fault) ==
    /\ pc = "r_loop"
    /\ ULt(b, numBlocks)
    /\ fault => (ProgressDue(b, o = "error") /\ ReadProgressFaults /\ cont)
    /\ IF o = "error"
       THEN pos' \in {pos, pos + DATA_BLOCK_SIZE}
       ELSE pos' = pos + DATA_BLOCK_SIZE
    /\ fail' = (o = "error")
    /\ IF ReadIsBad(o, b)
       THEN /\ firstBadBlock' = IF ~firstBad THEN b ELSE firstBadBlock
            /\ firstBad' = TRUE
            /\ lastBadBlock' = b
       ELSE UNCHANGED << firstBadBlock, firstBad, lastBadBlock >>
    /\ badSet' = IF o = "error" \/ ~Matches(ReadData(o, pos), b)
                 THEN badSet \cup {b} ELSE badSet
    /\ lastOp' = DevOp("read", b, o # "error")
    /\ IF ProgressDue(b, fail')
       THEN /\ rp' = [called |-> TRUE, blk |-> b, fail |-> fail',
                      ioError |-> (o = "error"), final |-> FALSE,
                      answer |-> cont]
            /\ IF fault
               THEN /\ pc' = "sigfpe"
                    /\ b' = b
               ELSE IF Aborts(cont)
               THEN /\ pc' = "r_aborted"
                    /\ b' = b
               ELSE /\ pc' = "r_loop"
                    /\ b' = b + 1
       ELSE /\ rp' = NoProgress
            /\ pc' = "r_loop"
            /\ b' = b + 1
    /\ callCount' = Called(callCount, "read")
    /\ UNCHANGED << devSize, wrapK, faulty, disk, mbr, isOpen >>
    /\ UNCHANGED << numBlocks, startBlock, remainingBlocks >>
    /\ UNCHANGED << block0Match, writeStartArg, wlog, round >>
    /\ UNCHANGED << initK, resumed, syncFailed, rewritten, ptArgs, fnVars >>

\* one iteration of the read loop with any callback: readProgress() answers
\* either way, or (ConsoleUI) divides by zero
ReadBlock ==
    /\ \E o \in ReadOutcomes, cont \in BOOLEAN, fault \in BOOLEAN :
          ReadBlockStep(o, cont, fault)
    /\ UNCHANGED uiVars

\* the device size passed instead of numBlocks * DATA_BLOCK_SIZE
TableArgs_DeviceSize ==
    IF firstBad
    THEN << firstBadBlock * DATA_BLOCK_SIZE,
            (lastBadBlock + 1) * DATA_BLOCK_SIZE - 1,
            devSize >>
    ELSE << 0, 0, devSize >>

\* lines 202-209: the arguments Check::read passes to writePartitionTable
TableArgs ==
    IF firstBad
    THEN << firstBadBlock * DATA_BLOCK_SIZE,
            (lastBadBlock + 1) * DATA_BLOCK_SIZE - 1,
            numBlocks * DATA_BLOCK_SIZE >>
    ELSE << 0, 0, numBlocks * DATA_BLOCK_SIZE >>

\* lines 181-211: the loop is over; the last readProgress(), whose answer cont
\* is ignored and which may divide by zero (fault), then readFinish() and
\* writePartitionTable(), whose seek(0) and write() put the image on the device
ReadFinishStep(cont, fault) ==
    /\ pc = "r_loop"
    /\ ~ULt(b, numBlocks)
    /\ fault => (~fail /\ ReadProgressFaults /\ cont)
    /\ rp' = IF ~fail
             THEN [called |-> TRUE, blk |-> numBlocks - 1, fail |-> TRUE,
                   ioError |-> fail, final |-> TRUE, answer |-> cont]
             ELSE NoProgress
    /\ IF fault
       THEN /\ pc' = "sigfpe"
            /\ UNCHANGED << callCount, ptArgs, mbr, pos, lastOp >>
       ELSE /\ callCount' = Called(Called(callCount, "readFinish"),
                                   "writePartitionTable")
            /\ ptArgs' = TableArgs
            /\ \E o \in OpOutcomes, serial \in 0..MaxSerial :
                /\ IF o = "error"
                   THEN /\ pc' = "crashed"
                        /\ pos' = 0
                        /\ UNCHANGED mbr
                   ELSE /\ mbr' = writePartitionTable(TableArgs[1], TableArgs[2],
                                                      TableArgs[3], serial)
                        /\ pos' = MBR_LEN
                        /\ pc' = "done"
                /\ lastOp' = DevOp("writePartitionTable", 0, o # "error")
    /\ UNCHANGED << devSize, wrapK, faulty, disk, isOpen >>
    /\ UNCHANGED << numBlocks, startBlock, remainingBlocks, b,
                    firstBad, firstBadBlock, lastBadBlock, fail >>
    /\ UNCHANGED << block0Match, writeStartArg, wlog, round >>
    /\ UNCHANGED << initK, resumed, syncFailed, rewritten, badSet, fnVars >>

\* the end of the read pass with any callback; when the last readProgress()
\* is not called (fail) there is no answer to choose
ReadFinish ==
    /\ \E cont \in BOOLEAN, fault \in BOOLEAN :
          /\ fail => cont
          /\ ReadFinishStep(cont, fault)
    /\ UNCHANGED uiVars

\* main(), part_001 lines 749-753, after Check::read() returned: delete dev,
\* whose destructor (lines 494-499) closes the device when it is open
MainDelete ==
    /\ pc = "done"
    /\ pc' = "exited"
    /\ IF isOpen
       THEN /\ isOpen' = FALSE
            /\ callCount' = Called(callCount, "close")
            /\ lastOp' = DevOp("close", 0, TRUE)
       ELSE UNCHANGED << isOpen, callCount, lastOp >>
    /\ rp' = NoProgress
    /\ UNCHANGED << devSize, wrapK, faulty, disk, mbr, pos >>
    /\ UNCHANGED << numBlocks, startBlock, remainingBlocks, b,
                    firstBad, firstBadBlock, lastBadBlock, fail >>
    /\ UNCHANGED << block0Match, writeStartArg, wlog, round >>
    /\ UNCHANGED << histVars, fnVars, uiVars >>

Next ==
    \/ WriteResumeCheck
    \/ WriteAskResume
    \/ WriteProbe
    \/ WriteProbeEnd
    \/ WriteStart
    \/ WriteBlock
    \/ WriteFinish
    \/ WriteSync
    \/ WriteRecover
    \/ ReadStart
    \/ ReadBlock
    \/ ReadFinish
    \/ MainDelete

Spec == Init /\ [][Next]_vars

(***************************************************************************)
(* The functions of device.cpp and prepareBuf called directly, on inputs   *)
(* drawn from bounded sets: a call is the record fn, its result out.       *)
(***************************************************************************)
GiBSectors == (1024 * 1048576) \div MBR_SECTOR_SIZE

\* sector numbers around the multiples of the minimum partition size, and the
\* sectors of the 1 GiB device with its middle sector bad
SectorPoints ==
    { s \in { m * MBR_MIN_PART_SIZE + d :
                m \in 0..MaxMult, d \in (0 - MaxDelta)..MaxDelta } : s >= 0 }
    \cup { GiBSectors \div 2, (GiBSectors \div 2) + 1, GiBSectors }

ByteOffsets == {0, MBR_SECTOR_SIZE - 1}

BytePoints == { s * MBR_SECTOR_SIZE + o : s \in SectorPoints, o \in ByteOffsets }

\* device sizes: whole blocks, as Check passes them (numBlocks * DATA_BLOCK_SIZE)
SectorsPerBlock == DATA_BLOCK_SIZE \div MBR_SECTOR_SIZE

SizePoints ==
    { s \in SectorPoints : s > 0 /\ s % SectorsPerBlock = 0 }
    \cup { n * SectorsPerBlock : n \in 1..MaxBlocks }

\* first bad byte <= last bad byte < size; (0, 0) is also the all-good sentinel
TableInputs ==
    { << f, l, s * MBR_SECTOR_SIZE >> :
        f \in BytePoints, l \in BytePoints, s \in SizePoints }

LbaInputs ==
    (0..MaxLba) \cup SectorPoints
    \cup { c * (CHS_NUMSECTORS * CHS_NUMHEADS) + r :
             c \in {255, 256, 511, 512, 767, 768, 1023, 1024, 1279},
             r \in {0, CHS_NUMSECTORS - 1, CHS_NUMSECTORS,
                    CHS_NUMSECTORS * CHS_NUMHEADS - 1} }

BufLens == { BLOCK_T_SIZE * w : w \in 1..MaxWords } \cup {DATA_BLOCK_SIZE}

BlockNums == (0..MaxBlockNum) \cup {254, 255, 256, 65535, 65536, 16777215, 16777216}

\* device sizes in blocks for the resume search
SearchSizes == (1..MaxSearchBlocks) \cup {255, 256, 1000, 4096}

\* the outcomes of the probe comparisons, one bit per probe, reused in turn
ProbeBits == 0..(2 ^ MaxProbeBits - 1)

ProbeMatches(bits, i) == (bits \div (2 ^ (i % MaxProbeBits))) % 2 = 1

\* the start block adjusted by the block count before it is halved
ProbeStep_NoHalving(start, rem, match) ==
    [startBlock |-> IF match THEN start + rem ELSE start - rem,
     remainingBlocks |-> rem \div 2]

\* check.cpp lines 84-91: remainingBlocks /= 2, then startBlock += or -= it
ProbeStep(start, rem, match) ==
    [startBlock |-> IF match THEN start + (rem \div 2) ELSE start - (rem \div 2),
     remainingBlocks |-> rem \div 2]

\* the blocks the search probes when comparison i comes out as bit i says
RECURSIVE ProbePath(_, _, _, _)
ProbePath(start, rem, bits, probes) ==
    IF rem > 1
    THEN LET s == ProbeStep(start, rem, ProbeMatches(bits, Len(probes)))
         IN  ProbePath(s.startBlock, s.remainingBlocks, bits,
                       Append(probes, start))
    ELSE probes

\* a device of nBlocks blocks on which the search finds exactly these outcomes:
\* block 0 and the probed blocks whose bit is set hold their pattern
ProbeDisk(nBlocks, bits) ==
    LET path == ProbePath(nBlocks \div 2, nBlocks \div 2, bits, << >>)
    IN  [q \in 0..(nBlocks - 1) |->
            IF q = 0 \/ \E i \in 1..Len(path) :
                            path[i] = q /\ ProbeMatches(bits, i - 1)
            THEN Pattern(q) ELSE NoBlock]

\* check.cpp lines 77-92: the loop, with the blocks probed so far; each round
\* seeks to the start block, reads it and compares it with its pattern
RECURSIVE SearchLoop(_, _, _)
SearchLoop(start, rem, probes) ==
    IF rem > 1
    THEN LET s == ProbeStep(start, rem,
                      Matches(ReadData("ok", start * DATA_BLOCK_SIZE), start))
         IN  SearchLoop(s.startBlock, s.remainingBlocks, Append(probes, start))
    ELSE [startBlock |-> start, remainingBlocks |-> rem, probes |-> probes]

\* check.cpp lines 72-93: the search after resumeWrite() said yes
resumeSearch(nBlocks) ==
    SearchLoop(nBlocks \div 2, nBlocks \div 2, << >>)

\* check.cpp line 75: block_t numLoops = log2(numBlocks)
RECURSIVE log2(_)
log2(n) == IF n <= 1 THEN 0 ELSE 1 + log2(n \div 2)

NoResult == [done |-> FALSE, bytes |-> << >>, calls |-> << >>, more |-> << >>]

\* a Check constructed on a device, and the call to make: the functions of
\* device.cpp and prepareBuf on a one-block device, the resume search on a
\* device of the size searched whose block 0 holds its pattern
InitFn ==
    /\ out = NoResult
    /\ faulty = FALSE
    /\ \/ /\ CheckInit(DATA_BLOCK_SIZE)
          /\ wrapK = 1 /\ initK = 0
          /\ DiskInit
          /\ \/ \E t \in TableInputs, serial \in 0..MaxSerial :
                  /\ t[1] <= t[2] /\ t[2] < t[3]
                  /\ fn = [op |-> "writePartitionTable",
                           a |-> t[1], b |-> t[2], c |-> t[3], d |-> serial]
             \/ \E lba \in LbaInputs :
                  fn = [op |-> "lba2chs", a |-> lba, b |-> 0, c |-> 0, d |-> 0]
             \/ \E len \in BufLens, b1 \in BlockNums, b2 \in BlockNums :
                  fn = [op |-> "prepareBuf", a |-> len, b |-> b1, c |-> b2, d |-> 0]
       \/ \E n \in SearchSizes, bits \in ProbeBits :
            /\ CheckInit(n * DATA_BLOCK_SIZE)
            /\ wrapK = n /\ initK = 1
            /\ disk = ProbeDisk(n, bits)
            /\ fn = [op |-> "resumeSearch", a |-> n, b |-> bits, c |-> 0, d |-> 0]

\* Device::writePartitionTable called on the device: the image is built and
\* written at offset 0 (part_000 lines 125-126)
CallWritePartitionTable ==
    /\ fn.op = "writePartitionTable"
    /\ ~out.done
    /\ out' = [done  |-> TRUE,
               bytes |-> writePartitionTable(fn.a, fn.b, fn.c, fn.d),
               calls |-> PartitionCalls(fn.a, fn.b, fn.c),
               more  |-> << >>]
    /\ mbr' = writePartitionTable(fn.a, fn.b, fn.c, fn.d)
    /\ pos' = MBR_LEN
    /\ callCount' = Called(callCount, "writePartitionTable")
    /\ lastOp' = DevOp("writePartitionTable", 0, TRUE)
    /\ UNCHANGED << devSize, wrapK, faulty, disk, isOpen >>
    /\ UNCHANGED << block0Match, writeStartArg, wlog, round, rp >>
    /\ UNCHANGED << chkVars, histVars, uiVars, fn >>

CallLba2chs ==
    /\ fn.op = "lba2chs"
    /\ ~out.done
    /\ out' = [done |-> TRUE, bytes |-> lba2chs(fn.a),
               calls |-> << >>, more |-> << >>]
    /\ UNCHANGED << devVars, chkVars, histVars, logVars, uiVars, fn >>

\* two buffers filled for two block numbers, as Check does with origBuf and buf
CallPrepareBuf ==
    /\ fn.op = "prepareBuf"
    /\ ~out.done
    /\ out' = [done |-> TRUE, bytes |-> prepareBuf(fn.a, fn.b),
               calls |-> << >>, more |-> prepareBuf(fn.a, fn.c)]
    /\ UNCHANGED << devVars, chkVars, histVars, logVars, uiVars, fn >>

\* Check::write lines 62-93 on a device whose block 0 holds its pattern, with
\* resumeWrite() answering yes: the read of block 0, then the search
CallResumeSearch ==
    /\ fn.op = "resumeSearch"
    /\ ~out.done
    /\ pc = "w_check"
    /\ Matches(ReadData("ok", 0), 0)
    /\ LET r == resumeSearch(numBlocks)
           n == Len(r.probes)
           last == IF n = 0 THEN 0 ELSE r.probes[n]
       IN  /\ out' = [done |-> TRUE, bytes |-> r.probes, calls |-> << >>,
                      more |-> << r.startBlock >>]
           /\ startBlock' = r.startBlock
           /\ remainingBlocks' = r.remainingBlocks
           /\ pos' = last * DATA_BLOCK_SIZE + DATA_BLOCK_SIZE
           /\ lastOp' = DevOp("read", last, TRUE)
           /\ callCount' = [callCount EXCEPT !.resumeWrite = @ + 1,
                                             !.probe = @ + n]
    /\ block0Match' = TRUE
    /\ resumed' = TRUE
    /\ pc' = "w_start"
    /\ UNCHANGED << devSize, wrapK, faulty, disk, mbr, isOpen >>
    /\ UNCHANGED << numBlocks, b, firstBad, firstBadBlock, lastBadBlock, fail >>
    /\ UNCHANGED << initK, syncFailed, rewritten, ptArgs, badSet >>
    /\ UNCHANGED << writeStartArg, wlog, round, rp >>
    /\ UNCHANGED << uiVars, fn >>

NextFn ==
    \/ CallWritePartitionTable
    \/ CallLba2chs
    \/ CallPrepareBuf
    \/ CallResumeSearch

SpecFn == InitFn /\ [][NextFn]_vars

(***************************************************************************)
(* Check::read driving ConsoleUI: the read loop with its readProgress()    *)
(* calls answered by ConsoleUI::readProgress.  A read succeeds or raises   *)
(* an I/O error and takes some whole number of seconds; what ConsoleUI     *)
(* prints is left out, except that the percentage it prints divides by     *)
(* numBlocks - 1, which ends the program on a device of one block.         *)
(***************************************************************************)
TimeSteps == {0, 1, MAX_READ_ERROR_TIME, MAX_READ_ERROR_TIME + 1}

\* ConsoleUI::readProgress, lines 676-690: the new firstReadError and the answer
readProgress(fre, dur, failed) ==
    IF failed
    THEN IF fre = 0
         THEN [firstReadError |-> dur, ret |-> TRUE]
         ELSE IF dur - fre > MAX_READ_ERROR_TIME
              THEN [firstReadError |-> fre, ret |-> FALSE]
              ELSE [firstReadError |-> fre, ret |-> TRUE]
    ELSE [firstReadError |-> 0, ret |-> TRUE]

\* Check constructed on a device of n blocks and Check::read() called, with
\* ConsoleUI as the callback
InitUI ==
    /\ \E n \in 1..MaxUiBlocks : Constructed(n * DATA_BLOCK_SIZE)
    /\ pc = "r_start"
    /\ faulty = TRUE
    /\ wrapK = numBlocks
    /\ initK \in {0, numBlocks}
    /\ DiskInit
    /\ FnIdle

\* Check::read lines 151-153 with ConsoleUI::readStart (lines 640-649)
UiReadStart ==
    /\ ReadStartStep
    /\ duration' = 0 /\ firstReadError' = 0 /\ runStart' = -1

\* Check::read lines 154-180 with ConsoleUI::readProgress: the read takes dt
\* seconds, and readProgress() answers from the time it sees
UiReadBlock ==
    \E o \in ReadOutcomes, dt \in TimeSteps :
        /\ duration + dt <= MaxSeconds
        /\ duration' = duration + dt
        /\ runStart' = IF o = "error"
                       THEN (IF runStart = -1 THEN duration' ELSE runStart)
                       ELSE -1
        /\ LET due == ProgressDue(b, o = "error")
               r == readProgress(firstReadError, duration', o = "error")
           IN  IF due /\ ReadProgressFaults
               THEN /\ ReadBlockStep(o, TRUE, TRUE)
                    /\ UNCHANGED firstReadError
               ELSE /\ ReadBlockStep(o, r.ret, FALSE)
                    /\ firstReadError' = IF due THEN r.firstReadError
                                         ELSE firstReadError

\* Check::read lines 181-211 with ConsoleUI::readProgress and readFinish
UiReadFinish ==
    /\ LET r == readProgress(firstReadError, duration, TRUE)
       IN  IF fail
           THEN /\ ReadFinishStep(TRUE, FALSE)
                /\ UNCHANGED firstReadError
           ELSE IF ReadProgressFaults
           THEN /\ ReadFinishStep(TRUE, TRUE)
                /\ UNCHANGED firstReadError
           ELSE /\ ReadFinishStep(r.ret, FALSE)
                /\ firstReadError' = r.firstReadError
    /\ UNCHANGED << duration, runStart >>

NextUI ==
    \/ UiReadStart
    \/ UiReadBlock
    \/ UiReadFinish
    \/ MainDelete

SpecUI == InitUI /\ [][NextUI]_vars

(***************************************************************************)
(* Check::read on a device long enough for the loop to pass block 256.     *)
(* Every block holds its pattern; the device garbles or fails reads only   *)
(* at a few blocks, on either side of block 256.                           *)
(***************************************************************************)
FaultBlocks == {1, 255, 256, 257}

\* Check constructed on a device of n blocks and Check::read() called
InitCadence ==
    /\ \E n \in 257..MaxLongBlocks : Constructed(n * DATA_BLOCK_SIZE)
    /\ pc = "r_start"
    /\ faulty = TRUE
    /\ wrapK = numBlocks
    /\ initK = numBlocks
    /\ DiskInit
    /\ FnIdle

\* Check::read lines 154-180, the read going wrong only at the blocks chosen
CadenceReadBlock ==
    /\ \E o \in (IF b \in FaultBlocks THEN ReadOutcomes ELSE {"ok"}),
          cont \in BOOLEAN :
          ReadBlockStep(o, cont, FALSE)
    /\ UNCHANGED uiVars

NextCadence ==
    \/ ReadStart
    \/ CadenceReadBlock
    \/ ReadFinish
    \/ MainDelete

SpecCadence == InitCadence /\ [][NextCadence]_vars

(***************************************************************************)
(* Reading a partition table image back.                                   *)
(***************************************************************************)
load32le(buf, off) ==
    buf[off] + 256 * buf[off + 1] + 65536 * buf[off + 2] + 16777216 * buf[off + 3]

Slot(img, i) ==
    LET part == 446 + i * 16
    IN  [chsStart |-> << img[part + 1], img[part + 2], img[part + 3] >>,
         type     |-> img[part + 4],
         chsEnd   |-> << img[part + 5], img[part + 6], img[part + 7] >>,
         lba      |-> load32le(img, part + 8),
         count    |-> load32le(img, part + 12)]

SlotIsEmpty(img, i) == \A j \in 0..15 : img[446 + i * 16 + j] = 0

UsedSlots(img) == { i \in 0..3 : ~SlotIsEmpty(img, i) }

\* the 64 bit word at offset off of a buffer, for words below 2^31
load64le(buf, off) ==
    IF \A j \in 4..7 : buf[off + j] = 0 /\ buf[off + 3] < 128
    THEN load32le(buf, off)
    ELSE -1

TableWritten == fn.op = "writePartitionTable" /\ out.done
TblStart == fn.a \div MBR_SECTOR_SIZE
TblEnd == (fn.b + 1) \div MBR_SECTOR_SIZE
TblNum == fn.c \div MBR_SECTOR_SIZE

\* the arguments are ones Check::read passes after finding bad blocks
FromBadBranch ==
    /\ fn.a % DATA_BLOCK_SIZE = 0
    /\ (fn.b + 1) % DATA_BLOCK_SIZE = 0
    /\ fn.c % DATA_BLOCK_SIZE = 0

FaultFree == ~faulty /\ wrapK = numBlocks

ReadPhase == {"r_start", "r_loop", "r_aborted", "done"}

\* the program ended by an uncaught I/O error or by a division by zero
Ended == {"crashed", "sigfpe"}

\* main() has not yet gone past Check::read(): the device is not torn down
InRun == pc # "exited"

(***************************************************************************)
(* C1: in a partition table written after the read pass found bad blocks,  *)
(* the stored sector range [LBA start, LBA start + stored count) of every  *)
(* good-type entry is disjoint from the bad envelope [start, end).         *)
(***************************************************************************)
C1_GoodEntriesAvoidBad ==
    (TableWritten /\ FromBadBranch) =>
        \A i \in UsedSlots(out.bytes) :
            LET e == Slot(out.bytes, i)
            IN  (e.type = MBR_PTYPE_GOOD) =>
                    \/ e.lba + e.count <= TblStart
                    \/ TblEnd <= e.lba
                    \/ TblEnd <= TblStart

(***************************************************************************)
(* C2: on a fault-free device, without resume, Check::write() followed by  *)
(* Check::read() records no bad block, passes the all-good sentinel        *)
(* (0, 0, numBlocks * blockSize), and the table holds exactly one entry,   *)
(* of good type, whose sectors are [0, num).                               *)
(***************************************************************************)
C2_RoundTrip ==
    (pc = "done" /\ FaultFree /\ ~resumed) =>
        /\ ~firstBad /\ badSet = {}
        /\ ptArgs = << 0, 0, numBlocks * DATA_BLOCK_SIZE >>
        /\ UsedSlots(mbr) = {0}
        /\ Slot(mbr, 0).type = MBR_PTYPE_GOOD
        /\ Slot(mbr, 0).lba = 0
        /\ Slot(mbr, 0).count = (numBlocks * DATA_BLOCK_SIZE) \div MBR_SECTOR_SIZE

(***************************************************************************)
(* C3: when exactly the blocks [0, k) hold their pattern (k >= 1) and      *)
(* resume is accepted, the search ends with a start block <= k, and after  *)
(* the resumed write pass every block holds its pattern.                   *)
(***************************************************************************)
C3_ResumeIdempotent ==
    (resumed /\ FaultFree) =>
        /\ (pc = "w_start") => (startBlock <= initK)
        /\ (pc = "w_sync") =>
              \A q \in 0..(numBlocks - 1) : disk[q] = Pattern(q)

(***************************************************************************)
(* C4: for every entry writePartitionTable emits over [entryStart,         *)
(* entryEnd), the stored sector count is entryEnd - entryStart and the     *)
(* stored LBA start is entryStart.                                         *)
(***************************************************************************)
C4_StoredFields ==
    TableWritten =>
        \A i \in 1..Len(out.calls) :
            /\ Slot(out.bytes, i - 1).lba = out.calls[i].start
            /\ Slot(out.bytes, i - 1).count = out.calls[i].end - out.calls[i].start

(***************************************************************************)
(* C5: a leading good entry [0, start) is emitted iff start > 32768, a bad *)
(* entry [start, end) iff start # 0 and end # 0, a trailing good entry     *)
(* [end, num) iff end < num - 32768; they fill consecutive slots from      *)
(* 0x1BE in that order with types 0x0C and 0xFF, at most 3 of them; the    *)
(* 1 GiB device with its middle sector bad gets three entries starting at  *)
(* sectors 0, 1048576 and 1048577.                                         *)
(***************************************************************************)
C5_Expected ==
    (IF TblStart > 32768
     THEN << [start |-> 0, end |-> TblStart, type |-> 12] >> ELSE << >>)
    \o (IF TblStart # 0 /\ TblEnd # 0
        THEN << [start |-> TblStart, end |-> TblEnd, type |-> 255] >> ELSE << >>)
    \o (IF TblEnd < TblNum - 32768
        THEN << [start |-> TblEnd, end |-> TblNum, type |-> 12] >> ELSE << >>)

C5_EntrySelection ==
    TableWritten =>
        /\ out.calls = C5_Expected
        /\ Len(out.calls) <= 3
        /\ UsedSlots(out.bytes) = { i - 1 : i \in 1..Len(out.calls) }
        /\ \A i \in 1..Len(out.calls) :
              /\ Slot(out.bytes, i - 1).type = out.calls[i].type
              /\ Slot(out.bytes, i - 1).lba = out.calls[i].start
        /\ (fn.a = 536870912 /\ fn.b = 536871423 /\ fn.c = 1073741824) =>
              /\ Len(out.calls) = 3
              /\ Slot(out.bytes, 0).lba = 0
              /\ Slot(out.bytes, 1).lba = 1048576
              /\ Slot(out.bytes, 2).lba = 1048577

(***************************************************************************)
(* C6: for a device of more than 32768 sectors, writePartitionTable(0, 0,  *)
(* size) emits exactly one entry, of good type, in slot 0, and no bad-type *)
(* entry; the entry in the table spans the whole device: it starts at      *)
(* sector 0 and counts num sectors.                                        *)
(***************************************************************************)
C6_AllGoodSentinel ==
    (TableWritten /\ fn.a = 0 /\ fn.b = 0 /\ TblNum > 32768) =>
        /\ out.calls = << [start |-> 0, end |-> TblNum, type |-> 12] >>
        /\ UsedSlots(out.bytes) = {0}
        /\ Slot(out.bytes, 0).type = 12
        /\ Slot(out.bytes, 0).lba = 0
        /\ Slot(out.bytes, 0).count = TblNum
        /\ \A i \in 0..3 : Slot(out.bytes, i).type # 255

(***************************************************************************)
(* C7: a partition table reflecting the envelope accumulated so far is     *)
(* written whenever the read pass ends, also when it ends early because    *)
(* readProgress answered abort.                                            *)
(***************************************************************************)
C7_TableAfterAbort ==
    (pc \in {"done", "r_aborted"}) =>
        /\ ptArgs = TableArgs
        /\ mbr # NoMbr

(***************************************************************************)
(* C8: once sync() has failed, no block is written again; the device is    *)
(* open again only after a successful reopen(), and from then on the run   *)
(* is in the read pass, which runs only on the reopened device.            *)
(***************************************************************************)
C8_SyncRecovery ==
    syncFailed =>
        /\ rewritten = 0
        /\ isOpen => (pc \in ReadPhase \/ pc \in Ended)
        /\ (pc \in ReadPhase) => isOpen

C8_Witness ==
    /\ syncFailed /\ isOpen
    /\ pc = "r_loop" /\ b = numBlocks /\ numBlocks > 1

(***************************************************************************)
(* C9: prepareBuf fills the buffer with the 64 bit value b + 1 repeated:   *)
(* the buffers of one block number are equal (the buffer of b matches b),  *)
(* the buffers of two different block numbers differ, and the buffer of    *)
(* block 0 is not all zero.                                                *)
(***************************************************************************)
C9_Pattern ==
    (fn.op = "prepareBuf" /\ out.done) =>
        /\ DOMAIN out.bytes = 0..(fn.a - 1)
        /\ \A w \in 0..((fn.a \div 8) - 1) : load64le(out.bytes, 8 * w) = fn.b + 1
        /\ \A w \in 0..((fn.a \div 8) - 1) : load64le(out.more, 8 * w) = fn.c + 1
        /\ (fn.b = fn.c) => memcmpEq(out.bytes, out.more)
        /\ (fn.b # fn.c) => ~memcmpEq(out.bytes, out.more)
        /\ (fn.b = 0) => \E i \in DOMAIN out.bytes : out.bytes[i] # 0

C9_Witness ==
    /\ fn.op = "prepareBuf" /\ out.done
    /\ fn.a = DATA_BLOCK_SIZE /\ fn.b = 0 /\ fn.c = 65535
    /\ out.bytes[0] = 1 /\ out.more[1] = 0 /\ out.more[2] = 1

(***************************************************************************)
(* C10: lba2chs encodes cylinder = lba / 1008, head = (lba / 63) mod 16,   *)
(* sector = (lba mod 63) + 1 as byte0 = head, byte1 = the two bits 8 and 9 *)
(* of the cylinder in bits 6 and 7 above the sector, byte2 = the low 8     *)
(* bits of the cylinder; lba 0 gives (0, 1, 0) and lba 63 gives (1, 1, 0). *)
(***************************************************************************)
C10_Lba2chs ==
    (fn.op = "lba2chs" /\ out.done) =>
        LET cylinder == fn.a \div 1008
            head     == (fn.a \div 63) % 16
            sector   == (fn.a % 63) + 1
        IN  /\ out.bytes = << head,
                              ((cylinder \div 256) % 4) * 64 + sector,
                              cylinder % 256 >>
            /\ (fn.a = 0) => out.bytes = << 0, 1, 0 >>
            /\ (fn.a = 63) => out.bytes = << 1, 1, 0 >>

C10_Witness ==
    /\ fn.op = "lba2chs" /\ out.done
    /\ fn.a = 1023 * 1008 + 1007
    /\ out.bytes = << 15, 255, 255 >>

(***************************************************************************)
(* C11: every readProgress(b, fail) call of Check::read passes fail = TRUE *)
(* exactly when the read of block b raised an I/O error: FALSE for a block *)
(* that was read, corrupted or not, also in the final 100% notification.   *)
(***************************************************************************)
C11_ProgressFailFlag ==
    rp.called => (rp.fail <=> rp.ioError)

(***************************************************************************)
(* C12: when the run is finished (read pass complete, partition table      *)
(* written) checkComplete() has been called exactly once, and readFinish() *)
(* was called before it.                                                   *)
(***************************************************************************)
C12_CheckComplete ==
    (pc = "done") =>
        /\ callCount.readFinish = 1
        /\ callCount.checkComplete = 1

(***************************************************************************)
(* C13: every good-type entry writePartitionTable emits spans at least     *)
(* MBR_MIN_PART_SIZE (32768) sectors, also on devices of fewer than 32768  *)
(* sectors.                                                                *)
(***************************************************************************)
C13_GoodMinSize ==
    TableWritten =>
        \A i \in 1..Len(out.calls) :
            (out.calls[i].type = MBR_PTYPE_GOOD) =>
                out.calls[i].end - out.calls[i].start >= 32768

(***************************************************************************)
(* C14: when the write loop has ended without a device error, the block    *)
(* writes made are exactly generate(b) at offset b * blockSize for b =     *)
(* startBlock, ..., numBlocks - 1, once each and in this order, where      *)
(* startBlock is 0 without resume and the block writeStart() announced;    *)
(* on a device that stores what is written, every block of [startBlock,    *)
(* numBlocks) then holds its pattern.                                      *)
(***************************************************************************)
C14_WritePass ==
    (pc = "w_sync") =>
        /\ (~resumed) => (startBlock = 0)
        /\ writeStartArg = << startBlock, numBlocks >>
        /\ Len(wlog) = numBlocks - startBlock
        /\ \A i \in 1..Len(wlog) :
              /\ wlog[i].off = (startBlock + i - 1) * DATA_BLOCK_SIZE
              /\ wlog[i].word = (startBlock + i - 1) + 1
        /\ (wrapK = numBlocks) =>
              \A q \in startBlock..(numBlocks - 1) : disk[q] = q + 1

C14_Witness ==
    /\ pc = "w_sync" /\ resumed /\ startBlock > 1
    /\ wrapK = numBlocks /\ initK < startBlock
    /\ Len(wlog) > 1

(***************************************************************************)
(* C15: resumeWrite() is called at most once, and exactly when the read of *)
(* block 0 returned the pattern of block 0; when block 0 did not match or  *)
(* the answer was no, no probe read is made and writeStart() is called     *)
(* with startBlock = 0.                                                    *)
(***************************************************************************)
C15_ResumeGate ==
    /\ callCount.resumeWrite <= 1
    /\ (callCount.resumeWrite = 1) => block0Match
    /\ block0Match => (pc = "w_ask" \/ callCount.resumeWrite = 1)
    /\ (~block0Match \/ ~resumed) =>
          /\ callCount.probe = 0
          /\ (callCount.writeStart > 0) => (writeStartArg[1] = 0)
    /\ callCount.writeStart <= 1

C15_Witness ==
    /\ block0Match /\ callCount.resumeWrite = 1 /\ ~resumed
    /\ numBlocks > 3 /\ initK > 2
    /\ writeStartArg = << 0, numBlocks >>
    /\ pc = "w_loop"

(***************************************************************************)
(* C16: after a failed sync() the device is closed exactly once, before    *)
(* any prompt or reopen(); a round of the loop calls reopen() exactly when *)
(* the answer was yes; a failed reopen() is followed by a new prompt; the  *)
(* loop is left only by a successful reopen(), after which the read pass   *)
(* runs, or by a decline, after which nothing of the read pass happens.    *)
(* Any other failed device operation ends the run, except a failed read of *)
(* the read pass, after which the run goes on with the next block.  (The   *)
(* run is main() up to the return of Check::read(); the close() of main's  *)
(* teardown after it is not part of the protocol.)                         *)
(***************************************************************************)
C16_RecoveryProtocol ==
    /\ callCount.sync <= 1
    /\ round.reopen <=> (round.asked /\ round.yes)
    /\ (round.reopen /\ ~round.ok) => (pc \in {"w_prompt"} /\ ~isOpen)
    /\ (round.asked /\ ~round.yes) =>
          /\ pc = "aborted"
          /\ callCount.readStart = 0 /\ callCount.read = 0
          /\ callCount.writePartitionTable = 0
    /\ InRun =>
          /\ callCount.close = (IF syncFailed THEN 1 ELSE 0)
          /\ round.asked => (syncFailed /\ callCount.close = 1)
          /\ (syncFailed /\ pc \notin {"w_prompt", "aborted"}) =>
                (round.ok /\ isOpen)
          /\ round.ok => (pc \in ReadPhase \/ pc \in Ended)
    /\ (pc = "crashed") => ~lastOp.ok
    /\ (~lastOp.ok) =>
          \/ pc = "crashed"
          \/ lastOp.op = "reopen" /\ pc \in {"w_prompt", "aborted"}
          \/ lastOp.op = "read" /\ pc = "r_loop" /\ b = lastOp.blk + 1
          \/ lastOp.op = "read" /\ pc \in {"r_aborted", "sigfpe"} /\ b = lastOp.blk

C16_Witness ==
    /\ pc = "w_prompt" /\ callCount.close = 1
    /\ round.reopen /\ ~round.ok /\ ~isOpen
    /\ lastOp = DevOp("reopen", 0, FALSE)

(***************************************************************************)
(* C17: the phases of a run come in order: no block write before the       *)
(* resume check and search are over; sync() is called once, after all      *)
(* block writes and writeFinish(); close() and reopen() happen only after  *)
(* a failed sync(); no read of the read pass before sync() or reopen()     *)
(* succeeded; the partition table is written after all blocks were read    *)
(* and is the last device operation of a finished run.  (The run is main() *)
(* up to the return of Check::read(), before main's teardown.)             *)
(***************************************************************************)
C17_PhaseOrder ==
    /\ (pc \in {"w_check", "w_ask", "w_probe", "w_start"}) =>
          (callCount.write = 0 /\ callCount.sync = 0 /\ callCount.read = 0)
    /\ (callCount.write > 0) => (callCount.writeStart = 1)
    /\ callCount.sync <= 1
    /\ (callCount.sync = 1) =>
          /\ callCount.writeFinish = 1
          /\ callCount.write = numBlocks - writeStartArg[1]
          /\ Len(wlog) = callCount.write
    /\ (~syncFailed) => ~round.asked
    /\ (~syncFailed /\ InRun) =>
          /\ callCount.close = 0
          /\ lastOp.op \notin {"close", "reopen"}
    /\ (callCount.close > 0 \/ round.asked) => callCount.sync = 1
    /\ (callCount.readStart > 0 \/ callCount.read > 0) =>
          /\ callCount.sync = 1
          /\ (~syncFailed) \/ round.ok
          /\ InRun => isOpen
    /\ (callCount.writePartitionTable > 0) =>
          /\ callCount.read = numBlocks
          /\ callCount.readFinish = 1
          /\ InRun => lastOp.op = "writePartitionTable"
    /\ (pc = "done") =>
          /\ callCount.writePartitionTable = 1
          /\ lastOp = DevOp("writePartitionTable", 0, TRUE)

C17_Witness ==
    /\ pc = "done" /\ syncFailed /\ round.ok
    /\ callCount.probe > 0 /\ callCount.write > 1
    /\ callCount.read = numBlocks
    /\ lastOp.op = "writePartitionTable"

(***************************************************************************)
(* C18: during the read pass, a block has been recorded bad iff some block *)
(* read so far mismatched or failed to read; firstBadBlock is then the     *)
(* lowest and lastBadBlock the highest such block, firstBadBlock <=        *)
(* lastBadBlock; a block that reads back its pattern changes neither.      *)
(***************************************************************************)
C18_Envelope ==
    /\ firstBad <=> (badSet # {})
    /\ \A q \in badSet : q < callCount.read
    /\ firstBad =>
          /\ firstBadBlock \in badSet /\ lastBadBlock \in badSet
          /\ \A q \in badSet : firstBadBlock <= q /\ q <= lastBadBlock
          /\ firstBadBlock <= lastBadBlock

C18_Witness ==
    /\ pc = "r_loop"
    /\ badSet = {1, 3}
    /\ firstBadBlock = 1 /\ lastBadBlock = 3
    /\ b = 5 /\ ~fail

(***************************************************************************)
(* C19: writePartitionTable is called at most once, and once when the read *)
(* pass completed; its arguments are (firstBadBlock * 4096, (lastBadBlock  *)
(* + 1) * 4096 - 1) when a bad block was found and (0, 0) otherwise, with  *)
(* the size numBlocks * 4096, the device size less its trailing partial    *)
(* block; (0, 0) is passed iff no bad block was found.                     *)
(***************************************************************************)
C19_TableInputs ==
    /\ callCount.writePartitionTable <= 1
    /\ (pc = "done") => (callCount.writePartitionTable = 1)
    /\ (ptArgs # << >>) <=> (callCount.writePartitionTable = 1)
    /\ (ptArgs # << >>) =>
          /\ ptArgs[3] = numBlocks * 4096
          /\ ptArgs[3] = devSize - (devSize % 4096)
          /\ (badSet # {}) =>
                /\ ptArgs[1] = firstBadBlock * 4096
                /\ ptArgs[2] = (lastBadBlock + 1) * 4096 - 1
          /\ (badSet = {}) => (ptArgs[1] = 0 /\ ptArgs[2] = 0)
          /\ (ptArgs[1] = 0 /\ ptArgs[2] = 0) <=> (badSet = {})

C19_Witness ==
    /\ pc = "done"
    /\ devSize % DATA_BLOCK_SIZE # 0
    /\ badSet = {0}
    /\ ptArgs = << 0, 4095, devSize - MBR_SECTOR_SIZE >>

(***************************************************************************)
(* C20: when a readProgress() call of the read loop answers false the read *)
(* pass is over at once: the block it was called for is the last one read, *)
(* readFinish() and writePartitionTable() are not called and the call that *)
(* answered false stays the last callback call.                            *)
(***************************************************************************)
C20_ReadAbort ==
    /\ (rp.called /\ ~rp.final /\ ~rp.answer) => (pc = "r_aborted")
    /\ (pc = "r_aborted") =>
          /\ rp.called /\ ~rp.answer /\ rp.blk = b
          /\ callCount.read = b + 1
          /\ lastOp = DevOp("read", b, ~fail)
          /\ callCount.readFinish = 0
          /\ callCount.writePartitionTable = 0
          /\ ptArgs = << >>

C20_Witness ==
    /\ pc = "r_aborted"
    /\ b > 0 /\ fail
    /\ rp = [called |-> TRUE, blk |-> b, fail |-> TRUE, ioError |-> TRUE,
             final |-> FALSE, answer |-> FALSE]

(***************************************************************************)
(* C21 as stated: after each read of the read pass, readProgress() has     *)
(* been called for the block just read when its index is a multiple of 256 *)
(* or the block was recorded bad, by data mismatch or by I/O failure.      *)
(***************************************************************************)
C21_CalledForEveryBadBlock ==
    (pc \in {"r_loop", "r_aborted"} /\ callCount.read > 0) =>
        LET k == callCount.read - 1
        IN  (k % 256 = 0 \/ k \in badSet) => (rp.called /\ rp.blk = k)

(***************************************************************************)
(* C21 amended: after each read of the read pass, readProgress() has been  *)
(* called for the block just read when its index is a multiple of 256 or   *)
(* its read raised an I/O error, with fail telling which; the answer       *)
(* decides whether the pass goes on with the next block or is aborted.     *)
(***************************************************************************)
C21_ProgressCadence ==
    (pc \in {"r_loop", "r_aborted"} /\ callCount.read > 0) =>
        LET k == callCount.read - 1
        IN  /\ lastOp.op = "read" /\ lastOp.blk = k
            /\ (k % 256 = 0 \/ ~lastOp.ok) =>
                  /\ rp.called /\ rp.blk = k /\ ~rp.final
                  /\ rp.fail = ~lastOp.ok
                  /\ IF rp.answer
                     THEN pc = "r_loop" /\ b = k + 1
                     ELSE pc = "r_aborted" /\ b = k

C21_Witness ==
    /\ pc = "r_loop" /\ b = 257
    /\ lastOp = DevOp("read", 256, TRUE)
    /\ rp.called /\ rp.blk = 256 /\ ~rp.fail
    /\ badSet = {1, 255}

(***************************************************************************)
(* C22: the read pass starts at block 0 whatever the write pass resumed    *)
(* at; the k-th read it issues (k = 0, 1, ...) is the read of block k, at  *)
(* offset k * blockSize, whether the reads before it matched, mismatched   *)
(* or failed; a pass that is not aborted ends after numBlocks reads.       *)
(***************************************************************************)
C22_ReadCoverage ==
    /\ (pc = "r_loop") =>
          /\ callCount.read = b
          /\ (b < numBlocks) => (pos = b * DATA_BLOCK_SIZE)
          /\ startBlock = 0
    /\ (pc = "done") => (callCount.read = numBlocks)

(***************************************************************************)
(* C23: ConsoleUI aborts the read pass only when the current run of        *)
(* consecutive failed reads has lasted more than MAX_READ_ERROR_TIME (15)  *)
(* seconds, every read from the first failure of the run to the aborting   *)
(* one having raised an I/O error; after a successfully read block the     *)
(* failure timer is reset.                                                 *)
(***************************************************************************)
C23_ContinuousTimeout ==
    /\ (pc = "r_aborted") => (runStart # -1 /\ duration - runStart > 15)
    /\ (pc = "r_loop" /\ b > 0 /\ ~fail) => (firstReadError = 0)

(***************************************************************************)
(* C24: whenever the read pass found a bad block, the partition table      *)
(* written holds a bad-type (0xFF) entry whose LBA start is the sector     *)
(* firstBad / 512, also when the first bad block is block 0.               *)
(***************************************************************************)
C24_BadEntryPresent ==
    (pc = "done" /\ firstBad) =>
        \E i \in UsedSlots(mbr) :
            /\ Slot(mbr, i).type = 255
            /\ Slot(mbr, i).lba = ptArgs[1] \div 512

(***************************************************************************)
(* C25: in every partition table written, the stored sector ranges [LBA    *)
(* start, LBA start + stored count) of the entries are pairwise disjoint   *)
(* and none extends past the device: LBA start + stored count <= num.      *)
(***************************************************************************)
C25_StoredRanges ==
    TableWritten =>
        /\ \A i \in UsedSlots(out.bytes) :
              Slot(out.bytes, i).lba + Slot(out.bytes, i).count <= fn.c \div 512
        /\ \A i, j \in UsedSlots(out.bytes) :
              (i < j) =>
                 \/ Slot(out.bytes, i).lba + Slot(out.bytes, i).count
                       <= Slot(out.bytes, j).lba
                 \/ Slot(out.bytes, j).lba + Slot(out.bytes, j).count
                       <= Slot(out.bytes, i).lba

(***************************************************************************)
(* C26: for every number of blocks >= 1 and every outcome of the probe     *)
(* comparisons, each block the resume search probes is in [0, numBlocks),  *)
(* the start block never goes below 0, at most floor(log2(numBlocks))      *)
(* probes are made, and the start block the search ends with is below      *)
(* numBlocks.                                                              *)
(***************************************************************************)
C26_ResumeSearchBounds ==
    (fn.op = "resumeSearch" /\ out.done) =>
        /\ \A i \in 1..Len(out.bytes) :
              0 <= out.bytes[i] /\ out.bytes[i] < fn.a
        /\ Len(out.bytes) <= log2(fn.a)
        /\ 0 <= out.more[1] /\ out.more[1] < fn.a

C26_Witness ==
    /\ fn.op = "resumeSearch" /\ out.done
    /\ fn.a = 1000 /\ fn.b = 0
    /\ out.bytes = << 500, 250, 125, 63, 32, 17, 10, 7 >>
    /\ out.more = << 6 >>

(***************************************************************************)
(* C27: after a run that completed, with the partition table written at    *)
(* offset 0, block 0 of the device does not read back as generate(0):      *)
(* the resume check of a following run does not match and resumeWrite()    *)
(* is not asked.                                                           *)
(***************************************************************************)
C27_NoResumeAfterCompletion ==
    (pc \in {"done", "exited"}) =>
        /\ mbr # NoMbr
        /\ \A o \in ReadOutcomes \ {"error"} : ~Matches(ReadData(o, 0), 0)

C27_Witness ==
    /\ pc = "done"
    /\ block0Match /\ disk[0] = 1
    /\ mbr[0] = 0 /\ mbr[510] = 85 /\ mbr[511] = 170

(***************************************************************************)
(* C28: on a device that wraps accesses into K < numBlocks physical        *)
(* blocks, a write pass that was not resumed followed by the read pass     *)
(* records a bad block (block 0, as soon as it has been read), and the     *)
(* all-good sentinel (0, 0) is not passed to writePartitionTable.          *)
(***************************************************************************)
C28_CounterfeitDetected ==
    (wrapK < numBlocks /\ ~resumed) =>
        /\ (pc \in {"r_loop", "r_aborted"} /\ callCount.read > 0) =>
              (firstBad /\ 0 \in badSet)
        /\ (ptArgs # << >>) =>
              /\ firstBad
              /\ ~(ptArgs[1] = 0 /\ ptArgs[2] = 0)

C28_Witness ==
    /\ pc = "done" /\ ~faulty /\ ~resumed
    /\ wrapK = 2 /\ numBlocks = 5
    /\ badSet = {0, 1, 2}
    /\ ptArgs = << 0, 12287, 20480 >>

====
